---- MODULE Spec2Model ----
(***************************************************************************)
(* A model of sux-rs' BitFieldVec (src/src/bits/bit_field_vec.rs): a       *)
(* vector of fixed-bit-width values packed into words of type W, on a      *)
(* plain backend (Vec<W>) with its sequential iterator, and on an atomic    *)
(* backend (Vec<W::AtomicType>) written by compare-and-exchange loops.     *)
(*                                                                         *)
(* Words are naturals below 2^W::BITS; every shift, AND, OR and NOT of the *)
(* code is computed on them bit by bit, with the width of W.               *)
(***************************************************************************)
EXTENDS Integers, Sequences, FiniteSets, TLC

(***************************************************************************)
(* Bounds of the model.                                                    *)
(***************************************************************************)
\* Largest len of a plain vector.
MaxLen == 3
\* Largest len of an atomic vector.
MaxAtomicLen == 2
\* Number of threads sharing an atomic vector.
NThreads == 2

\* usize::BITS of the target.  The iterator reads it instead of W::BITS.
\* 16 is the narrowest usize Rust has; W = u8 is narrower on every target.
UsizeBits == 16

\* The word types W of the model, by W::BITS: u8, and u16 (as wide as usize).
WordSizes == {8, UsizeBits}

\* The two builds: "debug" has overflow checks and debug assertions on,
\* "release" has them off (a shift by >= BITS then wraps its amount).
Builds == {"debug", "release"}

Threads == 1..NThreads

(***************************************************************************)
(* Word arithmetic.                                                        *)
(***************************************************************************)
Pow2(n) == 2 ^ n

\* W::MAX
WordMax(wb) == Pow2(wb) - 1

RECURSIVE BitAnd(_, _)
\* a & b
BitAnd(a, b) ==
    IF a = 0 \/ b = 0 THEN 0
    ELSE (a % 2) * (b % 2) + 2 * BitAnd(a \div 2, b \div 2)

RECURSIVE BitOr(_, _)
\* a | b
BitOr(a, b) ==
    IF a = 0 THEN b
    ELSE IF b = 0 THEN a
    ELSE (IF a % 2 = 1 \/ b % 2 = 1 THEN 1 ELSE 0) + 2 * BitOr(a \div 2, b \div 2)

\* !a on a word of wb bits
BitNot(a, wb) == WordMax(wb) - a

\* a >> s on a word, s < W::BITS
Shr(a, s) == a \div Pow2(s)

\* a << s on a word of wb bits, s < W::BITS: the bits shifted out are dropped
Shl(a, s, wb) == (a % Pow2(wb - s)) * Pow2(s)

\* A shift by s overflows when s >= W::BITS: a panic with overflow checks,
\* otherwise the amount wraps to s mod W::BITS.
ShiftOverflows(s, wb) == s >= wb
WrapShift(s, wb) == s % wb

(***************************************************************************)
(* The vector: BitFieldVec { data, bit_width, mask, len }.                 *)
(* data is a sequence of words; word k of the code is data[k + 1].         *)
(***************************************************************************)
\* mask without its zero case, as a build without overflow checks computes
\* it: M::MAX >> (M::BITS - 0) wraps to M::MAX >> 0.
mask_without_zero_case(bit_width, wb) ==
    Shr(WordMax(wb), WrapShift(wb - bit_width, wb))

\* mask computed as (1 << bit_width) - 1 on M, which loses the bit shifted
\* out when bit_width = M::BITS.
mask_by_left_shift(bit_width, wb) ==
    IF bit_width = 0 THEN 0
    ELSE BitAnd(Shl(1, bit_width % wb, wb) + WordMax(wb), WordMax(wb))

\* fn mask<M: Word>(bit_width) -> M
mask(bit_width, wb) ==
    IF bit_width = 0 THEN 0
    ELSE Shr(WordMax(wb), wb - bit_width)

\* A word count that rounds the bit length down.
n_of_words_rounding_down(bit_width, n, wb) ==
    LET q == (n * bit_width) \div wb
    IN  IF q > 1 THEN q ELSE 1

\* n_of_words of new and new_atomic
n_of_words(bit_width, n, wb) ==
    LET q == (n * bit_width + wb - 1) \div wb
    IN  IF q > 1 THEN q ELSE 1

\* BitFieldVec::new(bit_width, len), and new_atomic: the same fields over
\* atomic words, all zero.
new(bit_width, n, wb) ==
    [data      |-> [k \in 1..n_of_words(bit_width, n, wb) |-> 0],
     bit_width |-> bit_width,
     mask      |-> mask(bit_width, wb),
     len       |-> n]

\* The word at word_index.  An index past the allocation is an out-of-bounds
\* unchecked read; the model never performs one on a vector built by new.
WordAt(d, word_index) ==
    IF word_index + 1 \in DOMAIN d THEN d[word_index + 1] ELSE 0

\* bit_index + bit_width > W::BITS: the field of index spans two words.
Straddles(s, index, wb) == ((index * s.bit_width) % wb) + s.bit_width > wb

\* get_unchecked that never reads the word at word_index + 1.
get_unchecked_one_word(s, d, index, wb) ==
    LET pos        == index * s.bit_width
        word_index == pos \div wb
        bit_index  == pos % wb
    IN  BitAnd(Shr(WordAt(d, word_index), bit_index), s.mask)

\* BitFieldSlice::get_unchecked on the word sequence d
get_unchecked(s, d, index, wb) ==
    LET pos        == index * s.bit_width
        word_index == pos \div wb
        bit_index  == pos % wb
    IN  IF bit_index + s.bit_width <= wb
        THEN BitAnd(Shr(WordAt(d, word_index), bit_index), s.mask)
        ELSE BitAnd(BitOr(Shr(WordAt(d, word_index), bit_index),
                          Shl(WordAt(d, word_index + 1), wb - bit_index, wb)),
                    s.mask)

\* The word indices that get_unchecked and set_unchecked, plain or atomic,
\* read or write for the field of index: word_index, and word_index + 1 on
\* the branch bit_index + bit_width > W::BITS.
touched_words(s, index, wb) ==
    LET pos        == index * s.bit_width
        word_index == pos \div wb
        bit_index  == pos % wb
    IN  IF bit_index + s.bit_width <= wb
        THEN {word_index}
        ELSE {word_index, word_index + 1}

\* A candidate built from the shifted value alone, not from the word read.
set_field_from_zero(word, s, bit_index, value, wb) ==
    Shl(value, bit_index, wb)

\* The single-word candidate: clear the field, OR in the shifted value.
set_field(word, s, bit_index, value, wb) ==
    BitOr(BitAnd(word, BitNot(Shl(s.mask, bit_index, wb), wb)),
          Shl(value, bit_index, wb))

\* The low word with the old bits of the field left in place.
set_low_without_clear(word, bit_index, value, wb) ==
    BitOr(word, Shl(value, bit_index, wb))

\* A low word made of the shifted value alone.
set_low_from_zero(word, bit_index, value, wb) ==
    Shl(value, bit_index, wb)

\* The low word of a straddling field: keep the bits below bit_index.
set_low(word, bit_index, value, wb) ==
    BitOr(BitAnd(word, Shl(1, bit_index, wb) - 1),
          Shl(value, bit_index, wb))

\* The high word with the old spilled bits left in place.
set_high_without_clear(word, s, bit_index, value, wb) ==
    BitOr(word, Shr(value, wb - bit_index))

\* The high word of a straddling field: clear the spilled bits, OR them in.
set_high(word, s, bit_index, value, wb) ==
    BitOr(BitAnd(word, BitNot(Shr(s.mask, wb - bit_index), wb)),
          Shr(value, wb - bit_index))

\* BitFieldSliceMut::set_unchecked: the new word sequence
set_unchecked(s, index, value, wb) ==
    LET pos        == index * s.bit_width
        word_index == pos \div wb
        bit_index  == pos % wb
        d          == s.data
    IN  IF bit_index + s.bit_width <= wb
        THEN [d EXCEPT ![word_index + 1] =
                 set_field(d[word_index + 1], s, bit_index, value, wb)]
        ELSE [d EXCEPT ![word_index + 1] =
                 set_low(d[word_index + 1], bit_index, value, wb),
                       ![word_index + 2] =
                 set_high(d[word_index + 2], s, bit_index, value, wb)]

\* panic_if_out_of_bounds!(index, len)
panic_if_out_of_bounds(index, n) == index >= n

\* panic_if_value!(value, mask, bit_width)
panic_if_value(value, m) == BitAnd(value, m) # value

\* What the checked set decides before it writes: "panic" or "ok".
set_check(s, index, value) ==
    IF panic_if_out_of_bounds(index, s.len) THEN "panic"
    ELSE IF panic_if_value(value, s.mask) THEN "panic"
    ELSE "ok"

(***************************************************************************)
(* Inputs of the model.                                                    *)
(***************************************************************************)
\* 0101...01 on wb bits
RECURSIVE Alternating(_)
Alternating(wb) == IF wb <= 0 THEN 0 ELSE 1 + 4 * Alternating(wb - 2)

\* Values that fit in bit_width bits: zero, all ones, and the alternating
\* pattern 0101...01 cut to bit_width bits.
FitValues(bit_width, wb) ==
    LET m == mask(bit_width, wb)
    IN  {0, m, BitAnd(Alternating(wb), m)}

\* Values that do not fit: the lowest one, and W::MAX.
UnfitValues(bit_width, wb) ==
    IF bit_width = wb THEN {}
    ELSE {mask(bit_width, wb) + 1, WordMax(wb)}

\* The values the threads of the atomic backend set: the nonzero ones of
\* FitValues (zero is every field's initial value); all of FitValues when
\* bit_width <= 1 leaves a single nonzero value.
AtomicFitValues(bit_width, wb) ==
    LET nonzero == FitValues(bit_width, wb) \ {0}
    IN  IF Cardinality(nonzero) >= 2 THEN nonzero ELSE FitValues(bit_width, wb)

\* A checked set that tests the value only after writing it.
set_checking_value_late(s, index, value, wb) ==
    IF panic_if_out_of_bounds(index, s.len)
    THEN [res |-> "panic", data |-> s.data]
    ELSE [res |-> IF panic_if_value(value, s.mask) THEN "panic" ELSE "ok",
          data |-> set_unchecked(s, index, value, wb)]

\* The checked BitFieldSliceMut::set: the outcome and the words it leaves.
set(s, index, value, wb) ==
    IF set_check(s, index, value) = "panic"
    THEN [res |-> "panic", data |-> s.data]
    ELSE [res |-> "ok", data |-> set_unchecked(s, index, value, wb)]

(***************************************************************************)
(* The sequential iterator: BitFieldVecUncheckedIterator { array,          *)
(* word_index, window, fill } inside BitFieldVecIterator { unchecked,      *)
(* index }.  A step that panics leaves panic = TRUE in its result.         *)
(***************************************************************************)
\* window >> amount as the build computes it
shr_build(window, amount, wb, bld) ==
    IF ShiftOverflows(amount, wb)
    THEN [panic |-> bld = "debug", val |-> Shr(window, WrapShift(amount, wb))]
    ELSE [panic |-> FALSE, val |-> Shr(window, amount)]

\* BitFieldVecUncheckedIterator::new(array, index), index <= len
unchecked_new(s, index, wb, bld) ==
    LET bit_offset == index * s.bit_width
        word_index == bit_offset \div UsizeBits
        bit_index  == bit_offset % UsizeBits
        sh         == shr_build(WordAt(s.data, word_index), bit_index, wb, bld)
    IN  IF index = s.len
        THEN [panic |-> FALSE, word_index |-> word_index, window |-> 0, fill |-> 0]
        ELSE [panic |-> sh.panic, word_index |-> word_index, window |-> sh.val,
              fill |-> UsizeBits - bit_index]

\* UncheckedValueIterator::next_unchecked: the new state and the value
next_unchecked(s, u, wb, bld) ==
    IF u.fill >= s.bit_width
    THEN LET sh == shr_build(u.window, s.bit_width, wb, bld)
         IN  [panic |-> sh.panic, word_index |-> u.word_index, window |-> sh.val,
              fill |-> u.fill - s.bit_width, res |-> BitAnd(u.window, s.mask)]
    ELSE LET word == WordAt(s.data, u.word_index + 1)
             used == s.bit_width - u.fill
             sh   == shr_build(word, used, wb, bld)
         IN  [panic |-> sh.panic, word_index |-> u.word_index + 1, window |-> sh.val,
              fill |-> UsizeBits - used,
              res |-> BitAnd(BitOr(u.window, Shl(word, u.fill, wb)), s.mask)]

\* The word indices BitFieldVecUncheckedIterator::new reads: none when
\* index = len.
unchecked_new_reads(s, index) ==
    IF index = s.len THEN {} ELSE {(index * s.bit_width) \div UsizeBits}

\* The word indices next_unchecked reads from the iterator state u: the next
\* word, on the branch fill < bit_width only.
next_unchecked_reads(s, u) ==
    IF u.fill >= s.bit_width THEN {} ELSE {u.word_index + 1}

\* The shift amounts of mask(bit_width): none for bit_width 0.
mask_shifts(bit_width, wb) ==
    IF bit_width = 0 THEN {} ELSE {wb - bit_width}

\* The shift amounts of get_unchecked, plain or atomic: word >> bit_index,
\* and on the two-word branch also << (W::BITS - bit_index).
get_unchecked_shifts(s, index, wb) ==
    LET bit_index == (index * s.bit_width) % wb
    IN  IF bit_index + s.bit_width <= wb
        THEN {bit_index}
        ELSE {bit_index, wb - bit_index}

\* The shift amounts of set_unchecked, plain or atomic: << bit_index of the
\* mask (or of ONE) and of the value, and on the two-word branch also
\* >> (W::BITS - bit_index) of the mask and of the value.
set_unchecked_shifts(s, index, wb) ==
    LET bit_index == (index * s.bit_width) % wb
    IN  IF bit_index + s.bit_width <= wb
        THEN {bit_index}
        ELSE {bit_index, wb - bit_index}

\* The shift amounts of next_unchecked from the iterator state u:
\* window >>= bit_width, or window << fill and window >>= used.
next_unchecked_shifts(s, u) ==
    IF u.fill >= s.bit_width
    THEN {s.bit_width}
    ELSE {u.fill, s.bit_width - u.fill}

(***************************************************************************)
(* State.                                                                  *)
(***************************************************************************)
VARIABLES
    backend,    \* "plain" or "atomic": the storage B of the vector
    build,      \* "debug" or "release"
    W_BITS,     \* W::BITS of the word type
    order,      \* the Ordering the program passes to its atomic calls
    vec,        \* the BitFieldVec: [data, bit_width, mask, len]
    shadow,     \* history: the value last stored at each index by a plain set
    panicked,   \* the plain program has panicked: "no", or the reason
    last_set,   \* the last checked plain set: its outcome res, and its
                \* arguments when it panicked; NoCall before the first
    iter,       \* the live BitFieldVecIterator and what it yielded, or NoIter
    th,         \* atomic backend: each thread's place in its call and locals
    lo_val,     \* history: per index, the value of the set whose exchange on
                \* the word holding the low part of the field succeeded last
    hi_val,     \* history: the same for the word holding the high part (the
                \* same word unless the field straddles)
    writers,    \* history: per straddling index, the threads that ever set it
    bumped,     \* history: the threads inside a retry loop whose word another
                \* thread's exchange has succeeded on since they last read it
    events,     \* history: per thread, the loads, fences and successful
                \* exchanges of its current atomic call, or of its last one
    rebuilt,    \* history: how the vector was last rebuilt from another one
                \* ("to_atomic", "to_plain", "raw_parts", "serde"), or "no"
    dict,       \* an IndexedDict with Succ and Pred: its values in order
    bits,       \* a bit vector with Rank and Select: its bits in order
    call        \* the last call on dict or bits and its result, or NoTraitCall

config_vars == <<backend, build, W_BITS, order>>
plain_vars  == <<shadow, panicked, last_set, iter>>
atomic_vars == <<th, lo_val, hi_val, writers, bumped, events>>
trait_vars == <<dict, bits, call>>
vars == <<config_vars, vec, plain_vars, atomic_vars, rebuilt, trait_vars>>

NoCall == [res |-> "none"]
NoIter == [live |-> FALSE]
NoRes  == [index |-> -1, value |-> -1]

\* A thread between two calls; got is the result of its last get.
Idle == [pc |-> "idle", index |-> 0, value |-> 0, word |-> 0,
         legit |-> {}, got |-> NoRes]

AtomicInit(n) ==
    /\ th = [t \in Threads |-> Idle]
    /\ lo_val = [i \in 0..(n - 1) |-> 0]
    /\ hi_val = [i \in 0..(n - 1) |-> 0]
    /\ writers = [i \in 0..(n - 1) |-> {}]
    /\ bumped = {}
    /\ events = [t \in Threads |-> <<>>]

\* No dictionary and no bit vector: the program works on a BitFieldVec.
NoTraitCall == [op |-> "none"]
NoTraits ==
    /\ dict = <<>>
    /\ bits = <<>>
    /\ call = NoTraitCall

Indices == 0..(vec.len - 1)

\* get(i) on the current vector
Get(i) == get_unchecked(vec, vec.data, i, W_BITS)

(***************************************************************************)
(* Initial states: a vector built by new(bit_width, len), for every word   *)
(* type, every bit_width in 0..=W::BITS and every len up to the bound.     *)
(***************************************************************************)
InitPlain ==
    /\ order = "SeqCst"
    /\ backend = "plain"
    /\ build \in Builds
    /\ W_BITS \in WordSizes
    /\ \E bw \in 0..W_BITS, n \in 0..MaxLen :
          /\ vec = new(bw, n, W_BITS)
          /\ shadow = [i \in 0..(n - 1) |-> 0]
          /\ AtomicInit(n)
    /\ panicked = "no"
    /\ last_set = NoCall
    /\ iter = NoIter
    /\ rebuilt = "no"
    /\ NoTraits

(***************************************************************************)
(* Plain backend: v.set(index, value).  The vector is borrowed mutably, so *)
(* no iterator is live.                                                    *)
(***************************************************************************)
Set(index, value) ==
    /\ backend = "plain"
    /\ panicked = "no"
    /\ ~iter.live
    /\ LET r == set(vec, index, value, W_BITS)
       IN  /\ vec' = [vec EXCEPT !.data = r.data]
           /\ last_set' = IF r.res = "panic"
                          THEN [res |-> "panic", index |-> index, value |-> value]
                          ELSE [res |-> "ok"]
           /\ panicked' = IF r.res = "panic" THEN "set" ELSE "no"
           /\ shadow' = IF r.res = "ok" THEN [shadow EXCEPT ![index] = value]
                        ELSE shadow
    /\ UNCHANGED <<config_vars, rebuilt, trait_vars, iter, atomic_vars>>

\* v.iter_from(from): BitFieldVecIterator::new, which panics when from > len.
IterFrom(from) ==
    /\ backend = "plain"
    /\ panicked = "no"
    /\ ~iter.live
    /\ IF from > vec.len
       THEN /\ panicked' = "start"
            /\ iter' = iter
       ELSE LET u == unchecked_new(vec, from, W_BITS, build)
            IN  /\ panicked' = IF u.panic THEN "shift" ELSE "no"
                /\ iter' = [live |-> TRUE, start |-> from, index |-> from,
                            word_index |-> u.word_index, window |-> u.window,
                            fill |-> u.fill, out |-> <<>>, done |-> FALSE]
    /\ UNCHANGED <<config_vars, rebuilt, trait_vars, vec, shadow, last_set, atomic_vars>>

\* Iterator::next on the live iterator: Some(next_unchecked()) while
\* index < len, None afterwards.
IterNext ==
    /\ backend = "plain"
    /\ panicked = "no"
    /\ iter.live
    /\ ~iter.done
    /\ IF iter.index < vec.len
       THEN LET u == next_unchecked(vec, iter, W_BITS, build)
            IN  /\ panicked' = IF u.panic THEN "shift" ELSE "no"
                /\ iter' = [iter EXCEPT !.index = IF u.panic THEN @ ELSE @ + 1,
                                        !.word_index = u.word_index,
                                        !.window = u.window,
                                        !.fill = u.fill,
                                        !.out = IF u.panic THEN @ ELSE Append(@, u.res)]
       ELSE /\ iter' = [iter EXCEPT !.done = TRUE]
            /\ panicked' = panicked
    /\ UNCHANGED <<config_vars, rebuilt, trait_vars, vec, shadow, last_set, atomic_vars>>

\* The iterator is dropped: the borrow of the vector ends.
IterDrop ==
    /\ backend = "plain"
    /\ panicked = "no"
    /\ iter.live
    /\ iter' = NoIter
    /\ UNCHANGED <<config_vars, rebuilt, trait_vars, vec, shadow, panicked, last_set, atomic_vars>>

SetInputs == FitValues(vec.bit_width, W_BITS) \cup UnfitValues(vec.bit_width, W_BITS)

AtomicSetInputs ==
    AtomicFitValues(vec.bit_width, W_BITS) \cup UnfitValues(vec.bit_width, W_BITS)

(***************************************************************************)
(* Atomic backend.  Every step is one atomic load or compare_exchange of   *)
(* one word, with the local computation around it; the steps of different  *)
(* threads interleave freely.                                              *)
(***************************************************************************)
\* The atomic backend never reads usize::BITS, so one word type stands for
\* all (u8 over AtomicU8); and it reads the build only in the debug assertion
\* bit_width != W::BITS, so for narrower fields one build stands for both.
InitAtomic ==
    /\ order = "SeqCst"
    /\ backend = "atomic"
    /\ W_BITS = 8
    /\ \E bw \in 0..W_BITS, n \in 0..MaxAtomicLen :
          /\ build \in (IF bw = W_BITS THEN Builds ELSE {"release"})
          /\ vec = new(bw, n, W_BITS)
          /\ shadow = [i \in 0..(n - 1) |-> 0]
          /\ AtomicInit(n)
    /\ panicked = "no"
    /\ last_set = NoCall
    /\ iter = NoIter
    /\ rebuilt = "no"
    /\ NoTraits

word_index_of(index) == (index * vec.bit_width) \div W_BITS
bit_index_of(index)  == (index * vec.bit_width) % W_BITS

\* The places of set_unchecked at which a thread is about to exchange.
LoopPcs == {"cas", "cas_lo", "cas_hi"}
\* The places inside set_unchecked.
SetPcs  == LoopPcs \cup {"load_hi"}

\* The word a thread inside set_unchecked works on.
WordOf(t) ==
    IF th[t].pc \in {"load_hi", "cas_hi"}
    THEN word_index_of(th[t].index) + 1
    ELSE word_index_of(th[t].index)

InFlightOn(index) == {t \in Threads : th[t].pc \in SetPcs /\ th[t].index = index}

\* A plain store in place of the exchange: it never compares.
store_unconditionally(word, current, candidate) ==
    [ok |-> TRUE, word |-> candidate, e |-> word]

\* An exchange whose Err carries the expected value, not the one found.
compare_exchange_returning_expected(word, current, candidate) ==
    IF word = current
    THEN [ok |-> TRUE, word |-> candidate, e |-> word]
    ELSE [ok |-> FALSE, word |-> word, e |-> current]

\* AtomicType::compare_exchange(current, new, order, order) on an atomic
\* holding word: what it holds afterwards, and Ok(_) or Err(e).
compare_exchange(word, current, candidate) ==
    IF word = current
    THEN [ok |-> TRUE, word |-> candidate, e |-> word]
    ELSE [ok |-> FALSE, word |-> word, e |-> word]

\* A retry that keeps the word it read first.
cas_failed_keeping_current(current, e) == current

\* Err(e) => current = e
cas_failed(current, e) == e

\* A branch that sends a field ending at the word boundary to the two-word
\* path.
atomic_set_strict_branch(s, index, value, wb, bld) ==
    IF set_check(s, index, value) = "panic" THEN "panic"
    ELSE IF bld = "debug" /\ s.bit_width = wb THEN "assert_failed"
    ELSE IF ((index * s.bit_width) % wb) + s.bit_width < wb THEN "cas"
    ELSE "cas_lo"

\* Where the checked atomic set goes before its first load: the checks of
\* set, then the debug assertion of set_unchecked, then the branch.
atomic_set(s, index, value, wb, bld) ==
    IF set_check(s, index, value) = "panic" THEN "panic"
    ELSE IF bld = "debug" /\ s.bit_width = wb THEN "assert_failed"
    ELSE IF ((index * s.bit_width) % wb) + s.bit_width <= wb THEN "cas"
    ELSE "cas_lo"

\* core::sync::atomic::Ordering
Orderings == {"Relaxed", "Release", "Acquire", "AcqRel", "SeqCst"}

\* AtomicType::load(order) panics: there is no release load and no
\* acquire-release load.
load_panics(o) == o \in {"Release", "AcqRel"}

\* AtomicType::compare_exchange(current, new, success, failure) panics:
\* there is no release and no acquire-release failure ordering.
compare_exchange_panics(success, failure) == failure \in {"Release", "AcqRel"}

\* The entries of events: a load of the word at word_index + word, an
\* exchange of it that succeeded, a fence, a compiler fence.
Load(word, o)      == [op |-> "load", word |-> word, order |-> o]
Exchanged(word, o) == [op |-> "compare_exchange", word |-> word, order |-> o]
Fence(o)           == [op |-> "fence", word |-> -1, order |-> o]
CompilerFence(o)   == [op |-> "compiler_fence", word |-> -1, order |-> o]

\* A fence placed before the load it belongs to.
fence_then_load(word, o) == <<Fence("Acquire"), Load(word, o)>>

\* Two-word path of set_unchecked: the load of a word, then the acquire
\* fence, before the loop on that word.
load_then_fence(word, o) == <<Load(word, o), Fence("Acquire")>>

\* Two-word path: the exchange of the low word that succeeded, the release
\* fence after the loop, the compiler fence before the second half.
low_exchanged(o) == <<Exchanged(0, o), Fence("Release"), CompilerFence("SeqCst")>>

\* Two-word path: the exchange of the high word that succeeded, the release
\* fence after the loop.
high_exchanged(o) == <<Exchanged(1, o), Fence("Release")>>

\* A call of thread t panics in a primitive that rejects the ordering.
OrderPanic(t) ==
    /\ th' = [th EXCEPT ![t] = [Idle EXCEPT !.pc = "order_panic"]]
    /\ bumped' = bumped \ {t}

\* BitFieldSliceAtomic::get_unchecked(index, order): the load of the word at
\* word_index; a field within the word is returned at once.
AtomicGet(t, index) ==
    /\ backend = "atomic"
    /\ th[t].pc = "idle"
    /\ index < vec.len
    /\ LET word == WordAt(vec.data, word_index_of(index))
       IN  IF load_panics(order)
           THEN /\ OrderPanic(t)
                /\ events' = [events EXCEPT ![t] = <<>>]
           ELSE /\ IF bit_index_of(index) + vec.bit_width <= W_BITS
                   THEN th' = [th EXCEPT ![t] = [Idle EXCEPT !.got =
                                 [index |-> index,
                                  value |-> get_unchecked(vec, vec.data, index, W_BITS)]]]
                   ELSE th' = [th EXCEPT ![t] = [Idle EXCEPT
                                 !.pc = "get_hi", !.index = index, !.word = word,
                                 !.legit = {hi_val[index]} \cup
                                           {th[u].value : u \in InFlightOn(index)}]]
                /\ events' = [events EXCEPT ![t] = <<Load(0, order)>>]
                /\ bumped' = bumped
    /\ UNCHANGED <<config_vars, rebuilt, trait_vars, vec, plain_vars, lo_val, hi_val, writers>>

\* get_unchecked on a straddling field: the load of the word at
\* word_index + 1, combined with the low word loaded before.
AtomicGetHi(t) ==
    /\ backend = "atomic"
    /\ th[t].pc = "get_hi"
    /\ LET index  == th[t].index
           loaded == [vec.data EXCEPT ![word_index_of(index) + 1] = th[t].word]
       IN  IF load_panics(order)
           THEN /\ OrderPanic(t)
                /\ events' = events
           ELSE /\ th' = [th EXCEPT ![t] = [Idle EXCEPT !.got =
                             [index |-> index,
                              value |-> get_unchecked(vec, loaded, index, W_BITS)]]]
                /\ events' = [events EXCEPT ![t] = Append(@, Load(1, order))]
                /\ bumped' = bumped
    /\ UNCHANGED <<config_vars, rebuilt, trait_vars, vec, plain_vars, lo_val, hi_val, writers>>

\* BitFieldSliceAtomic::set(index, value, order): the checks, the debug
\* assertion, and the first load of set_unchecked, with its fence on the
\* two-word path.
AtomicSet(t, index, value) ==
    /\ backend = "atomic"
    /\ th[t].pc = "idle"
    /\ LET to == atomic_set(vec, index, value, W_BITS, build)
       IN  IF to \in {"panic", "assert_failed"}
           THEN /\ th' = [th EXCEPT ![t] = [Idle EXCEPT !.pc = to]]
                /\ events' = [events EXCEPT ![t] = <<>>]
                /\ UNCHANGED <<writers, bumped>>
           ELSE IF load_panics(order)
           THEN /\ OrderPanic(t)
                /\ events' = [events EXCEPT ![t] = <<>>]
                /\ UNCHANGED writers
           ELSE /\ th' = [u \in Threads |->
                            IF u = t
                            THEN [Idle EXCEPT !.pc = to, !.index = index,
                                    !.value = value,
                                    !.word = WordAt(vec.data, word_index_of(index))]
                            ELSE IF th[u].pc = "get_hi" /\ th[u].index = index
                            THEN [th[u] EXCEPT !.legit = @ \cup {value}]
                            ELSE th[u]]
                /\ events' = [events EXCEPT ![t] =
                                IF to = "cas_lo" THEN load_then_fence(0, order)
                                ELSE <<Load(0, order)>>]
                /\ writers' = IF to = "cas_lo"
                              THEN [writers EXCEPT ![index] = @ \cup {t}]
                              ELSE writers
                /\ bumped' = bumped \ {t}
    /\ UNCHANGED <<config_vars, rebuilt, trait_vars, vec, plain_vars, lo_val, hi_val>>

\* One compare_exchange of thread t on word WordOf(t) with its candidate:
\* on Ok the loop breaks, the thread goes to after and done is what it has
\* executed by then; on Err(e) it retries.
Exchange(t, candidate, after, done) ==
    LET k == WordOf(t) + 1
        r == compare_exchange(vec.data[k], th[t].word, candidate)
    IN  IF compare_exchange_panics(order, order)
        THEN /\ OrderPanic(t)
             /\ UNCHANGED <<vec, events>>
        ELSE /\ vec' = [vec EXCEPT !.data[k] = r.word]
             /\ IF r.ok
                THEN /\ th' = [th EXCEPT ![t] = after]
                     /\ events' = [events EXCEPT ![t] = @ \o done]
                     /\ bumped' = (bumped \cup {u \in Threads : /\ th[u].pc \in LoopPcs
                                                               /\ WordOf(u) = WordOf(t)})
                                  \ {t}
                ELSE /\ th' = [th EXCEPT ![t].word = cas_failed(th[t].word, r.e)]
                     /\ events' = events
                     /\ bumped' = bumped \ {t}

\* The exchange would succeed now.
WouldSucceed(t) ==
    /\ ~compare_exchange_panics(order, order)
    /\ th[t].word = vec.data[WordOf(t) + 1]

\* set_unchecked, field within one word: the compare_exchange of the loop.
Cas(t) ==
    /\ backend = "atomic"
    /\ th[t].pc = "cas"
    /\ Exchange(t, set_field(th[t].word, vec, bit_index_of(th[t].index),
                             th[t].value, W_BITS), Idle, <<Exchanged(0, order)>>)
    /\ lo_val' = IF WouldSucceed(t) THEN [lo_val EXCEPT ![th[t].index] = th[t].value]
                 ELSE lo_val
    /\ hi_val' = IF WouldSucceed(t) THEN [hi_val EXCEPT ![th[t].index] = th[t].value]
                 ELSE hi_val
    /\ UNCHANGED <<config_vars, rebuilt, trait_vars, plain_vars, writers>>

\* set_unchecked, straddling field: the compare_exchange of the first loop,
\* on the word at word_index, and the fences after the loop.
CasLo(t) ==
    /\ backend = "atomic"
    /\ th[t].pc = "cas_lo"
    /\ Exchange(t, set_low(th[t].word, bit_index_of(th[t].index),
                           th[t].value, W_BITS),
                [th[t] EXCEPT !.pc = "load_hi", !.word = 0], low_exchanged(order))
    /\ lo_val' = IF WouldSucceed(t) THEN [lo_val EXCEPT ![th[t].index] = th[t].value]
                 ELSE lo_val
    /\ UNCHANGED <<config_vars, rebuilt, trait_vars, plain_vars, hi_val, writers>>

\* set_unchecked, straddling field: the load of the word at word_index + 1
\* and the fence before the second loop.
LoadHi(t) ==
    /\ backend = "atomic"
    /\ th[t].pc = "load_hi"
    /\ IF load_panics(order)
       THEN /\ OrderPanic(t)
            /\ events' = events
       ELSE /\ th' = [th EXCEPT ![t].pc = "cas_hi",
                                ![t].word = WordAt(vec.data, word_index_of(th[t].index) + 1)]
            /\ events' = [events EXCEPT ![t] = @ \o load_then_fence(1, order)]
            /\ bumped' = bumped \ {t}
    /\ UNCHANGED <<config_vars, rebuilt, trait_vars, vec, plain_vars, lo_val, hi_val, writers>>

\* set_unchecked, straddling field: the compare_exchange of the second loop
\* and the fence after it.
CasHi(t) ==
    /\ backend = "atomic"
    /\ th[t].pc = "cas_hi"
    /\ Exchange(t, set_high(th[t].word, vec, bit_index_of(th[t].index),
                            th[t].value, W_BITS), Idle, high_exchanged(order))
    /\ hi_val' = IF WouldSucceed(t) THEN [hi_val EXCEPT ![th[t].index] = th[t].value]
                 ELSE hi_val
    /\ UNCHANGED <<config_vars, rebuilt, trait_vars, plain_vars, lo_val, writers>>

NextAtomic ==
    \/ \E t \in Threads, index \in Indices : AtomicGet(t, index)
    \/ \E t \in Threads : AtomicGetHi(t)
    \/ \E t \in Threads, index \in 0..vec.len, value \in AtomicSetInputs :
          AtomicSet(t, index, value)
    \/ \E t \in Threads : Cas(t)
    \/ \E t \in Threads : CasLo(t)
    \/ \E t \in Threads : LoadHi(t)
    \/ \E t \in Threads : CasHi(t)

NextPlain ==
    \/ \E index \in 0..vec.len, value \in SetInputs : Set(index, value)
    \/ \E from \in 0..(vec.len + 1) : IterFrom(from)
    \/ IterNext
    \/ IterDrop

Init == InitPlain \/ InitAtomic

Next == NextPlain \/ NextAtomic

Spec == Init /\ [][Next]_vars

SpecPlain == InitPlain /\ [][NextPlain]_vars

SpecAtomic == InitAtomic /\ [][NextAtomic]_vars

(***************************************************************************)
(* Properties of the plain backend.                                        *)
(***************************************************************************)
IsPowerOfTwo(n) == \E k \in 0..UsizeBits : n = Pow2(k)

\* C1: after any sequence of checked sets on a vector built by new, get(i)
\* returns for every i < len the value most recently set at i, and 0 if i
\* was never set; this includes the fields that straddle two words.
C1_RoundTrip ==
    backend = "plain" => \A i \in Indices : Get(i) = shadow[i]

\* C1 witness: a straddling field holds a value whose two parts are both
\* nonzero, beside a neighbour that holds a nonzero value too.
C1_Witness ==
    /\ backend = "plain"
    /\ \E i \in Indices :
          /\ Straddles(vec, i, W_BITS)
          /\ i > 0
          /\ shadow[i] = vec.mask
          /\ shadow[i - 1] # 0
          /\ Get(i) = vec.mask

\* C2: the values the iterator started at start has yielded are get(start),
\* get(start + 1), ... in order, it yields all of them up to get(len - 1)
\* before it ends, and no step of it panics.
C2_IterEquivalence ==
    iter.live =>
       /\ panicked # "shift"
       /\ Len(iter.out) = iter.index - iter.start
       /\ \A k \in 1..Len(iter.out) : iter.out[k] = Get(iter.start + k - 1)
       /\ iter.done => iter.index = vec.len

\* C10: with bit_width = 0 the mask is 0, the vector owns exactly one word,
\* which stays 0, and every get returns 0; a checked set on a valid index is
\* accepted exactly when its value is 0 and then leaves the word unchanged.
C10_ZeroWidth ==
    /\ [](vec.bit_width = 0 =>
            /\ vec.mask = 0
            /\ Len(vec.data) = 1
            /\ vec.data[1] = 0
            /\ \A i \in Indices : Get(i) = 0)
    /\ [][\A index \in Indices, value \in SetInputs :
            (vec.bit_width = 0 /\ Set(index, value)) =>
               /\ (last_set'.res = "ok") <=> (value = 0)
               /\ vec' = vec]_vars

\* C10 witness: a zero-width vector with elements has accepted a set.
C10_Witness ==
    /\ backend = "plain"
    /\ vec.bit_width = 0
    /\ vec.len > 0
    /\ last_set.res = "ok"

(***************************************************************************)
(* Properties of the atomic backend.  lo_val[i] and hi_val[i] start at 0,  *)
(* the initial value of i, and change only when an exchange of a set on i  *)
(* succeeds, to the value of that set: they are always values that a set   *)
(* actually wrote to i.                                                    *)
(***************************************************************************)
\* Every set has returned (or died in a panic).
Quiescent == \A t \in Threads : th[t].pc \in {"idle", "panic", "assert_failed"}

\* No two threads ever wrote the same straddling index.
SoleWriters == \A i \in Indices : Cardinality(writers[i]) <= 1

\* The value whose low part (the bits held by the word at word_index) comes
\* from lo and whose high part comes from hi.
Mix(i, lo, hi) ==
    IF Straddles(vec, i, W_BITS)
    THEN LET k == W_BITS - bit_index_of(i)
         IN  (lo % Pow2(k)) + (hi \div Pow2(k)) * Pow2(k)
    ELSE lo

\* C3: with a power-of-two bit_width, under every interleaving, the field of
\* i always holds the initial value or the value of the set on i whose
\* exchange succeeded last, and every get(i) returns that value from one
\* load: no torn value exists or is observed.
C3_AtomicSingleWordSafety ==
    /\ []((backend = "atomic" /\ IsPowerOfTwo(vec.bit_width)) =>
            \A i \in Indices : Get(i) = lo_val[i] /\ hi_val[i] = lo_val[i])
    /\ [][\A t \in Threads, i \in Indices :
            (IsPowerOfTwo(vec.bit_width) /\ AtomicGet(t, i)) =>
               /\ th'[t].pc = "idle"
               /\ th'[t].got = [index |-> i, value |-> lo_val[i]]]_vars

\* C3 witness: with a power-of-two bit_width a writer is retrying on a word
\* another thread has exchanged since, and that thread has read back a
\* nonzero value from the index the writer is setting.
C3_Witness ==
    /\ backend = "atomic"
    /\ IsPowerOfTwo(vec.bit_width)
    /\ \E t, u \in Threads :
          /\ th[t].pc = "cas"
          /\ t \in bumped
          /\ ~WouldSucceed(t)
          /\ th[u].pc = "idle"
          /\ th[u].got.index = th[t].index
          /\ th[u].got.value > 0

\* C4: for any bit_width, an index that no thread is inside a set on (and,
\* if it straddles, that a single thread ever set) holds the value of the
\* last set on it, whatever its neighbours in the same words are doing; and
\* a step changes the field of an index only when it is an exchange of a set
\* on that very index.
C4_NoLostUpdate ==
    /\ [](backend = "atomic" =>
            \A i \in Indices :
               (InFlightOn(i) = {} /\ Cardinality(writers[i]) <= 1) =>
                  Get(i) = hi_val[i])
    /\ [][(backend = "atomic" /\ vec' # vec) =>
            \A i \in Indices :
               Get(i)' # Get(i) =>
                  \E t \in InFlightOn(i) : th[t].pc \in LoopPcs /\ th'[t] # th[t]]_vars

\* C4 witness: a thread is retrying its exchange because a set on a
\* neighbouring index of the same word has succeeded since its load, and the
\* neighbour holds the nonzero value written to it.
C4_Witness ==
    /\ backend = "atomic"
    /\ \E t \in Threads, j \in Indices :
          /\ th[t].pc \in LoopPcs
          /\ t \in bumped
          /\ ~WouldSucceed(t)
          /\ j # th[t].index
          /\ word_index_of(j) = WordOf(t)
          /\ InFlightOn(j) = {}
          /\ hi_val[j] > 0
          /\ Get(j) = hi_val[j]

\* C5: with a non-power-of-two bit_width, if no two threads ever wrote the
\* same straddling index, then once every set has returned every index,
\* straddling or not, holds the last value written to it.
C5_NoWriterRace ==
    (backend = "atomic" /\ ~IsPowerOfTwo(vec.bit_width) /\ SoleWriters /\ Quiescent) =>
       \A i \in Indices : Get(i) = hi_val[i] /\ lo_val[i] = hi_val[i]

\* C5 witness: all sets have returned; a straddling index set by one thread
\* only holds all ones, and an index sharing its low word is nonzero too.
C5_Witness ==
    /\ backend = "atomic"
    /\ ~IsPowerOfTwo(vec.bit_width)
    /\ SoleWriters
    /\ Quiescent
    /\ \E i, j \in Indices :
          /\ Straddles(vec, i, W_BITS)
          /\ Cardinality(writers[i]) = 1
          /\ Get(i) = vec.mask
          /\ j # i
          /\ word_index_of(j) = word_index_of(i)
          /\ Get(j) > 0

\* C6: with a non-power-of-two bit_width, if no two threads ever wrote the
\* same straddling index, a get of a straddling index returns a value the
\* index held when the get began or that a set on it was writing during the
\* get: the value before the set or the value being set, never a mix.
C6_ObserverSafe ==
    [][\A t \in Threads :
          (/\ backend = "atomic"
           /\ ~IsPowerOfTwo(vec.bit_width)
           /\ SoleWriters
           /\ AtomicGetHi(t)) => th'[t].got.value \in th[t].legit]_vars

\* C7: each word of a straddling field is exchanged atomically on its own:
\* at all times the field of i is the low part of the value whose low-word
\* exchange succeeded last and the high part of the value whose high-word
\* exchange succeeded last, which need not be the same value.
C7_TornPerWord ==
    backend = "atomic" =>
       \A i \in Indices : Get(i) = Mix(i, lo_val[i], hi_val[i])

\* C7 witness: two threads have set the same straddling index, both sets
\* have returned, the index holds the low part of one value and the high
\* part of the other, equal to neither, and a get has returned it.
C7_Witness ==
    /\ backend = "atomic"
    /\ Quiescent
    /\ \E i \in Indices, t \in Threads :
          /\ Straddles(vec, i, W_BITS)
          /\ Cardinality(writers[i]) = 2
          /\ Get(i) # lo_val[i]
          /\ Get(i) # hi_val[i]
          /\ Get(i) = Mix(i, lo_val[i], hi_val[i])
          /\ th[t].pc = "idle"
          /\ th[t].got = [index |-> i, value |-> Get(i)]

\* C8 as stated: whenever threads are inside a retry loop, the next exchange
\* of one of them succeeds.
C8_SomeNextExchangeSucceeds ==
    (\E t \in Threads : th[t].pc \in LoopPcs) =>
       \E t \in Threads : th[t].pc \in LoopPcs /\ WouldSucceed(t)

\* C8 amended: the next exchange of a thread inside a retry loop fails only
\* if another thread's exchange on the same word has succeeded since the
\* thread last read the word, and a failed exchange leaves the thread with
\* the current word, so that its next exchange succeeds unless yet another
\* exchange on the word succeeds first.
C8_LockFree ==
    /\ [](\A t \in Threads :
            (th[t].pc \in LoopPcs /\ ~WouldSucceed(t)) => t \in bumped)
    /\ [][\A t \in Threads :
            ((Cas(t) \/ CasLo(t) \/ CasHi(t)) /\ ~WouldSucceed(t)) =>
               /\ th'[t].pc = th[t].pc
               /\ WouldSucceed(t)']_vars

\* C8 witness: the only thread inside a retry loop holds a stale word: the
\* thread whose exchange made it stale has left its loop.
C8_Witness ==
    /\ backend = "atomic"
    /\ \E t \in Threads :
          /\ th[t].pc \in LoopPcs
          /\ ~WouldSucceed(t)
          /\ t \in bumped
          /\ \A u \in Threads \ {t} : th[u].pc \notin LoopPcs

(***************************************************************************)
(* Properties of both backends.                                            *)
(***************************************************************************)
\* C9: on both backends the checked set panics exactly when index >= len or
\* value & mask != value, and then no word has changed; otherwise it goes on
\* as set_unchecked with the same index and value: the plain one leaves the
\* words set_unchecked computes, the atomic one enters set_unchecked (whose
\* first step is its debug assertion).
C9_CheckedSet ==
    [][/\ \A index \in 0..vec.len, value \in SetInputs :
             Set(index, value) =>
                IF index >= vec.len \/ BitAnd(value, vec.mask) # value
                THEN /\ panicked' = "set"
                     /\ last_set'.res = "panic"
                     /\ vec' = vec
                ELSE /\ panicked' = "no"
                     /\ last_set'.res = "ok"
                     /\ vec'.data = set_unchecked(vec, index, value, W_BITS)
       /\ \A t \in Threads, index \in 0..vec.len, value \in AtomicSetInputs :
             AtomicSet(t, index, value) =>
                /\ vec' = vec
                /\ IF index >= vec.len \/ BitAnd(value, vec.mask) # value
                   THEN th'[t].pc = "panic"
                   ELSE \/ th'[t].pc = "assert_failed"
                        \/ /\ th'[t].pc \in {"cas", "cas_lo"}
                           /\ th'[t].index = index
                           /\ th'[t].value = value]_vars

\* C9 witness: a plain set with a valid index and a value that does not fit
\* has panicked on a vector that holds nonzero values.
C9_Witness ==
    /\ backend = "plain"
    /\ panicked = "set"
    /\ last_set.res = "panic"
    /\ last_set.index < vec.len
    /\ BitAnd(last_set.value, vec.mask) # last_set.value
    /\ \E i \in Indices : Get(i) > 0

(***************************************************************************)
(* IndexedDict with Succ and Pred (src/src/traits/indexed_dict.rs): the    *)
(* provided methods, over a dictionary whose values are monotonically      *)
(* non-decreasing.  The required methods (len, get_unchecked,              *)
(* succ_unchecked, pred_unchecked) are the implementor's; they are         *)
(* modelled by the contract the trait documents, and a call that breaks    *)
(* the contract's "# Safety" clause is undefined behaviour: any result.    *)
(***************************************************************************)
\* Largest len of a dictionary.
MaxDictLen == 3
\* Largest value stored in a dictionary; queries range over 0..MaxValue + 1.
MaxValue == 3

DictValues == 1..MaxValue
Queries == 0..(MaxValue + 1)

\* The monotonically non-decreasing dictionaries of the model.
Dicts ==
    {d \in UNION {[1..n -> DictValues] : n \in 0..MaxDictLen} :
        \A i \in 1..(Len(d) - 1) : d[i] <= d[i + 1]}

\* IndexedDict::len
IndexedDict_len(d) == Len(d)

\* IndexedDict::is_empty
is_empty(d) == IndexedDict_len(d) = 0

\* IndexedDict::get_unchecked, index < len
IndexedDict_get_unchecked(d, index) == d[index + 1]

\* IndexedDict::get: panics when index >= len
IndexedDict_get(d, index) ==
    IF index >= IndexedDict_len(d)
    THEN [panic |-> TRUE, val |-> 0]
    ELSE [panic |-> FALSE, val |-> IndexedDict_get_unchecked(d, index)]

DictNone == [kind |-> "none"]
DictPanic == [kind |-> "panic"]
\* Some(unsafe { self.<core>::<STRICT>(value) })
Delegate(core, strict) == [kind |-> "some", core |-> core, strict |-> strict]

\* if guard { None } else { Some(..) }, where the guard compares value with
\* self.get(index) and so panics when that get panics.
Guarded(element, none_if, some) ==
    IF element.panic THEN DictPanic
    ELSE IF none_if THEN DictNone
    ELSE some

\* Succ::succ: what it decides before the unchecked core runs
succ(d, value) ==
    IF is_empty(d) THEN DictNone
    ELSE LET last == IndexedDict_get(d, IndexedDict_len(d) - 1)
         IN  Guarded(last, value > last.val, Delegate("succ_unchecked", FALSE))

\* succ_strict with the guard of succ
succ_strict_with_guard_of_succ(d, value) ==
    IF is_empty(d) THEN DictNone
    ELSE LET last == IndexedDict_get(d, IndexedDict_len(d) - 1)
         IN  Guarded(last, value > last.val, Delegate("succ_unchecked", TRUE))

\* Succ::succ_strict
succ_strict(d, value) ==
    IF is_empty(d) THEN DictNone
    ELSE LET last == IndexedDict_get(d, IndexedDict_len(d) - 1)
         IN  Guarded(last, value >= last.val, Delegate("succ_unchecked", TRUE))

\* Pred::pred
pred(d, value) ==
    IF is_empty(d) THEN DictNone
    ELSE LET first == IndexedDict_get(d, 0)
         IN  Guarded(first, value < first.val, Delegate("pred_unchecked", FALSE))

\* Pred::pred_strict
pred_strict(d, value) ==
    IF is_empty(d) THEN DictNone
    ELSE LET first == IndexedDict_get(d, 0)
         IN  Guarded(first, value <= first.val, Delegate("pred_unchecked", TRUE))

\* The positions (from 1) of the elements above value, or equal to it unless
\* STRICT.
Above(d, value, strict) ==
    {i \in 1..Len(d) : IF strict THEN d[i] > value ELSE d[i] >= value}

\* The positions of the elements below value, or equal to it unless STRICT.
Below(d, value, strict) ==
    {i \in 1..Len(d) : IF strict THEN d[i] < value ELSE d[i] <= value}

\* What a core may return when its successor or predecessor does not exist.
UndefinedPairs ==
    {[ub |-> TRUE, index |-> i, value |-> v] : i \in 0..MaxDictLen, v \in Queries}

\* Succ::succ_unchecked::<STRICT>: the pairs (index, value) it may return.
\* With repeated values the index returned depends on the implementation.
succ_unchecked(d, value, strict) ==
    LET c == Above(d, value, strict)
    IN  IF c = {} THEN UndefinedPairs
        ELSE {[ub |-> FALSE, index |-> i - 1, value |-> d[i]] :
                 i \in {j \in c : \A k \in c : d[j] <= d[k]}}

\* Pred::pred_unchecked::<STRICT>
pred_unchecked(d, value, strict) ==
    LET c == Below(d, value, strict)
    IN  IF c = {} THEN UndefinedPairs
        ELSE {[ub |-> FALSE, index |-> i - 1, value |-> d[i]] :
                 i \in {j \in c : \A k \in c : d[j] >= d[k]}}

\* The program holds one dictionary.
InitDict ==
    /\ order = "SeqCst"
    /\ backend = "dict"
    /\ build = "release"
    /\ W_BITS = 8
    /\ vec = new(0, 0, 8)
    /\ shadow = <<>>
    /\ AtomicInit(0)
    /\ panicked = "no"
    /\ last_set = NoCall
    /\ iter = NoIter
    /\ rebuilt = "no"
    /\ dict \in Dicts
    /\ bits = <<>>
    /\ call = NoTraitCall

\* A call of one of the four methods: its decision, then the core it
\* delegates to.
DictCall(op, value, decided) ==
    /\ backend = "dict"
    /\ \E r \in (IF decided.kind # "some" THEN {decided}
                 ELSE {[decided EXCEPT !.kind = "some"] @@ p :
                          p \in IF decided.core = "succ_unchecked"
                                THEN succ_unchecked(dict, value, decided.strict)
                                ELSE pred_unchecked(dict, value, decided.strict)}) :
          call' = [op |-> op, arg |-> value, res |-> r]
    /\ UNCHANGED <<config_vars, vec, plain_vars, atomic_vars, rebuilt, dict, bits>>

\* dict.succ(&value)
Succ(value) == DictCall("succ", value, succ(dict, value))

\* dict.succ_strict(&value)
SuccStrict(value) == DictCall("succ_strict", value, succ_strict(dict, value))

\* dict.pred(&value)
Pred(value) == DictCall("pred", value, pred(dict, value))

\* dict.pred_strict(&value)
PredStrict(value) == DictCall("pred_strict", value, pred_strict(dict, value))

NextDict ==
    \/ \E value \in Queries : Succ(value)
    \/ \E value \in Queries : SuccStrict(value)
    \/ \E value \in Queries : Pred(value)
    \/ \E value \in Queries : PredStrict(value)

SpecDict == InitDict /\ [][NextDict]_vars

MaxBits == 4

BitVectors == UNION {[1..n -> {0, 1}] : n \in 0..MaxBits}
Positions == 0..(MaxBits + 2)
Ranks == 0..(MaxBits + 1)

\* BitLength::len
BitLength_len(b) == Len(b)

\* The bits equal to bit among the first pos bits of b.
CountBefore(b, pos, bit) ==
    Cardinality({i \in 1..pos : i <= Len(b) /\ b[i] = bit})

\* BitCount::count: the number of ones in the bit vector
count(b) == CountBefore(b, Len(b), 1)

\* Rank::rank_unchecked: the results it may return
rank_unchecked(b, pos) ==
    IF pos <= BitLength_len(b) THEN {CountBefore(b, pos, 1)} ELSE Positions

\* pos.min(self.len())
min(a, b) == IF a <= b THEN a ELSE b

\* rank without the clamp
rank_without_min(b, pos) ==
    [passed |-> pos, res |-> rank_unchecked(b, pos)]

\* rank that also counts the bit at pos
rank_through_pos(b, pos) ==
    [passed |-> min(pos + 1, BitLength_len(b)),
     res    |-> rank_unchecked(b, min(pos + 1, BitLength_len(b)))]

\* Rank::rank: the position it passes to rank_unchecked, and the results
rank(b, pos) ==
    [passed |-> min(pos, BitLength_len(b)),
     res    |-> rank_unchecked(b, min(pos, BitLength_len(b)))]

\* pos - r on usize: below zero the subtraction overflows (a panic, or a
\* wrapped result, by the build).
Overflowed == -1
usize_sub(pos, r) == IF r <= pos THEN pos - r ELSE Overflowed

\* RankZero::rank_zero
rank_zero(b, pos) ==
    [passed |-> rank(b, pos).passed,
     res    |-> {usize_sub(pos, r) : r \in rank(b, pos).res}]

SelectNone == [kind |-> "none"]
SelectSome(positions, ub) ==
    {[kind |-> "some", pos |-> s, ub |-> ub] : s \in positions}

\* The position of the bit equal to bit that has r such bits before it.
PositionOf(b, r, bit) ==
    {s \in 0..(Len(b) - 1) : b[s + 1] = bit /\ CountBefore(b, s, bit) = r}

\* Select::select_unchecked: the results it may return
select_unchecked(b, r) ==
    IF r < count(b) THEN SelectSome(PositionOf(b, r, 1), FALSE)
    ELSE SelectSome(Positions, TRUE)

\* SelectZero::select_zero_unchecked
select_zero_unchecked(b, r) ==
    IF r < BitLength_len(b) - count(b) THEN SelectSome(PositionOf(b, r, 0), FALSE)
    ELSE SelectSome(Positions, TRUE)

\* Select::select
select(b, r) ==
    IF r >= count(b) THEN {SelectNone} ELSE select_unchecked(b, r)

\* select_zero with the guard of select
select_zero_with_guard_of_select(b, r) ==
    IF r >= count(b) THEN {SelectNone} ELSE select_zero_unchecked(b, r)

\* SelectZero::select_zero
select_zero(b, r) ==
    IF r >= BitLength_len(b) - count(b) THEN {SelectNone}
    ELSE select_zero_unchecked(b, r)

\* The program holds one bit vector.
InitBits ==
    /\ order = "SeqCst"
    /\ backend = "bits"
    /\ build = "release"
    /\ W_BITS = 8
    /\ vec = new(0, 0, 8)
    /\ shadow = <<>>
    /\ AtomicInit(0)
    /\ panicked = "no"
    /\ last_set = NoCall
    /\ iter = NoIter
    /\ rebuilt = "no"
    /\ dict = <<>>
    /\ bits \in BitVectors
    /\ call = NoTraitCall

BitsUnchanged ==
    UNCHANGED <<config_vars, vec, plain_vars, atomic_vars, rebuilt, dict, bits>>

\* bits.rank(pos)
Rank(pos) ==
    /\ backend = "bits"
    /\ \E r \in rank(bits, pos).res :
          call' = [op |-> "rank", arg |-> pos,
                   passed |-> rank(bits, pos).passed, res |-> r]
    /\ BitsUnchanged

\* bits.rank_zero(pos)
RankZero(pos) ==
    /\ backend = "bits"
    /\ \E r \in rank_zero(bits, pos).res :
          call' = [op |-> "rank_zero", arg |-> pos,
                   passed |-> rank_zero(bits, pos).passed, res |-> r]
    /\ BitsUnchanged

\* bits.select(rank)
Select(r) ==
    /\ backend = "bits"
    /\ \E s \in select(bits, r) : call' = [op |-> "select", arg |-> r, res |-> s]
    /\ BitsUnchanged

\* bits.select_zero(rank)
SelectZero(r) ==
    /\ backend = "bits"
    /\ \E s \in select_zero(bits, r) :
          call' = [op |-> "select_zero", arg |-> r, res |-> s]
    /\ BitsUnchanged

NextBits ==
    \/ \E pos \in Positions : Rank(pos)
    \/ \E pos \in Positions : RankZero(pos)
    \/ \E r \in Ranks : Select(r)
    \/ \E r \in Ranks : SelectZero(r)

SpecBits == InitBits /\ [][NextBits]_vars

\* C12: rank(pos) passes min(pos, len) to rank_unchecked, never a position
\* greater than len, and for every pos >= len it returns rank(len), the
\* number of ones in the bit vector.
C12_RankClamps ==
    call.op = "rank" =>
       /\ call.passed = min(call.arg, Len(bits))
       /\ call.passed <= Len(bits)
       /\ call.arg >= Len(bits) =>
             /\ {call.res} = rank(bits, Len(bits)).res
             /\ call.res = count(bits)

\* C12 witness: rank of a position beyond the end of a vector that holds
\* ones and zeros has returned its number of ones.
C12_Witness ==
    /\ call.op = "rank"
    /\ call.arg > Len(bits)
    /\ call.passed = Len(bits)
    /\ call.res = count(bits)
    /\ 0 < count(bits)
    /\ count(bits) < Len(bits)

\* C13: rank_zero(pos) returns the number of zero bits of the bit vector
\* that precede pos, for every pos, also beyond the length of the vector.
C13_RankZeroCountsZeros ==
    call.op = "rank_zero" => call.res = CountBefore(bits, call.arg, 0)

\* C14 as stated: if rank(p) = r < count for a valid p, then select(r)
\* returns a position <= p, the position of the r-th one.
C14_SelectAtOrBefore ==
    call.op = "select" =>
       \A p \in 0..Len(bits) :
          (call.arg \in rank(bits, p).res /\ call.arg < count(bits)) =>
             /\ call.res.kind = "some"
             /\ call.res.pos <= p
             /\ call.res.pos \in PositionOf(bits, call.arg, 1)

\* C14 amended: if rank(p) = r < count for a valid p, then select(r) returns
\* a position >= p (p itself exactly when bit p is one) that is the position
\* of the r-th one: a one with rank r.
C14_SelectAtOrAfter ==
    call.op = "select" =>
       \A p \in 0..Len(bits) :
          (call.arg \in rank(bits, p).res /\ call.arg < count(bits)) =>
             /\ call.res.kind = "some"
             /\ ~call.res.ub
             /\ call.res.pos >= p
             /\ (call.res.pos = p) <=> (p < Len(bits) /\ bits[p + 1] = 1)
             /\ bits[call.res.pos + 1] = 1
             /\ rank(bits, call.res.pos).res = {call.arg}

\* C14 witness: select(r) has returned a position after a position p whose
\* rank is r.
C14_Witness ==
    /\ call.op = "select"
    /\ call.res.kind = "some"
    /\ call.arg > 0
    /\ \E p \in 0..Len(bits) :
          /\ rank(bits, p).res = {call.arg}
          /\ call.res.pos > p

\* C15: for r < count select(r) returns a position s with rank(s + 1) =
\* r + 1, and for r >= count it returns none; select_zero(r) returns none
\* iff r >= len - count, and otherwise the position of the zero of rank r.
C15_SelectThenRank ==
    /\ call.op = "select" =>
          IF call.arg < count(bits)
          THEN /\ call.res.kind = "some"
               /\ ~call.res.ub
               /\ rank(bits, call.res.pos + 1).res = {call.arg + 1}
          ELSE call.res.kind = "none"
    /\ call.op = "select_zero" =>
          /\ (call.res.kind = "none") <=> (call.arg >= Len(bits) - count(bits))
          /\ call.res.kind = "some" =>
                /\ ~call.res.ub
                /\ call.res.pos \in PositionOf(bits, call.arg, 0)

\* C15 witness: select of the last one has returned a position that is not
\* the first one's, in a vector that ends with a zero.
C15_Witness ==
    /\ call.op = "select"
    /\ call.res.kind = "some"
    /\ call.arg > 0
    /\ call.arg = count(bits) - 1
    /\ bits[Len(bits)] = 0

(***************************************************************************)
(* The vector in the hands of a single owner: conversions between the      *)
(* backends, reconstruction from the stored fields, and the calls of one   *)
(* thread on either backend.                                               *)
(***************************************************************************)
\* B::convert_to between Vec<W> and Vec<W::AtomicType> (or the slices): the
\* same words, word by word, reinterpreted.
data_convert_to(d) == [k \in DOMAIN d |-> d[k]]

\* A conversion that reduces every word to the mask.
convert_to_renormalizing(s) ==
    [len       |-> s.len,
     bit_width |-> s.bit_width,
     mask      |-> s.mask,
     data      |-> [k \in DOMAIN s.data |-> BitAnd(s.data[k], s.mask)]]

\* ConvertTo::convert_to on BitFieldVec, unwrapped by the From impls
convert_to(s) ==
    [len       |-> s.len,
     bit_width |-> s.bit_width,
     mask      |-> s.mask,
     data      |-> data_convert_to(s.data)]

\* BitFieldVec::into_raw_parts: (data, bit_width, len)
into_raw_parts(s) == <<s.data, s.bit_width, s.len>>

\* from_raw_parts that takes all ones for the mask.
from_raw_parts_with_full_mask(parts, wb) ==
    [data      |-> parts[1],
     bit_width |-> parts[2],
     mask      |-> WordMax(wb),
     len       |-> parts[3]]

\* BitFieldVec::from_raw_parts(data, bit_width, len)
from_raw_parts(parts, wb) ==
    [data      |-> parts[1],
     bit_width |-> parts[2],
     mask      |-> mask(parts[2], wb),
     len       |-> parts[3]]

\* v.serialize(&mut file): the four fields of the struct, as stored
serialize(s) == <<s.data, s.bit_width, s.mask, s.len>>

\* <BitFieldVec<W>>::mmap(file, flags): the vector over the stored fields,
\* without revalidation
mmap(file) ==
    [data      |-> file[1],
     bit_width |-> file[2],
     mask      |-> file[3],
     len       |-> file[4]]

\* The thread that owns the vector.
Owner == 1

\* No call is in progress on the vector, which can be moved.
Movable ==
    /\ panicked = "no"
    /\ ~iter.live
    /\ \A t \in Threads : th[t].pc = "idle"

\* The owner builds the vector by new or by new_atomic, over either word
\* type.  Without an iterator only the debug assertion of the atomic
\* set_unchecked reads the build, and only when bit_width = W::BITS.
InitOwned ==
    /\ order = "SeqCst"
    /\ backend \in {"plain", "atomic"}
    /\ W_BITS \in WordSizes
    /\ \E bw \in 0..W_BITS, n \in 0..MaxLen :
          /\ build \in (IF bw = W_BITS THEN Builds ELSE {"release"})
          /\ vec = new(bw, n, W_BITS)
          /\ shadow = [i \in 0..(n - 1) |-> 0]
          /\ AtomicInit(n)
    /\ panicked = "no"
    /\ last_set = NoCall
    /\ iter = NoIter
    /\ rebuilt = "no"
    /\ NoTraits

\* The history variables of the other backend hold no history of the
\* vector a conversion yields: they restart from the values it holds.
\* BitFieldVec<W::AtomicType, W>::from(v) on a plain vector
ConvertToAtomic ==
    /\ backend = "plain"
    /\ Movable
    /\ backend' = "atomic"
    /\ vec' = convert_to(vec)
    /\ th' = [t \in Threads |-> Idle]
    /\ lo_val' = [i \in Indices |-> Get(i)]
    /\ hi_val' = [i \in Indices |-> Get(i)]
    /\ writers' = [i \in Indices |-> {}]
    /\ bumped' = {}
    /\ shadow' = [i \in Indices |-> 0]
    /\ last_set' = NoCall
    /\ rebuilt' = "to_atomic"
    /\ events' = [t \in Threads |-> <<>>]
    /\ UNCHANGED <<build, W_BITS, order, panicked, iter, trait_vars>>

\* BitFieldVec<W>::from(v) on an atomic vector
ConvertToPlain ==
    /\ backend = "atomic"
    /\ Movable
    /\ backend' = "plain"
    /\ vec' = convert_to(vec)
    /\ shadow' = [i \in Indices |-> Get(i)]
    /\ last_set' = NoCall
    /\ th' = [t \in Threads |-> Idle]
    /\ lo_val' = [i \in Indices |-> 0]
    /\ hi_val' = [i \in Indices |-> 0]
    /\ writers' = [i \in Indices |-> {}]
    /\ rebuilt' = "to_plain"
    /\ events' = [t \in Threads |-> <<>>]
    /\ UNCHANGED <<build, W_BITS, order, panicked, iter, bumped, trait_vars>>

\* BitFieldVec::from_raw_parts on the result of v.into_raw_parts()
RawParts ==
    /\ backend \in {"plain", "atomic"}
    /\ Movable
    /\ vec' = from_raw_parts(into_raw_parts(vec), W_BITS)
    /\ rebuilt' = "raw_parts"
    /\ UNCHANGED <<config_vars, plain_vars, atomic_vars, trait_vars>>

\* test_epserde: v.serialize(file), then mmap of the file
Serde ==
    /\ backend = "plain"
    /\ Movable
    /\ vec' = mmap(serialize(vec))
    /\ rebuilt' = "serde"
    /\ UNCHANGED <<config_vars, plain_vars, atomic_vars, trait_vars>>

NextOwned ==
    \/ \E index \in 0..vec.len, value \in SetInputs : Set(index, value)
    \/ ConvertToAtomic
    \/ ConvertToPlain
    \/ RawParts
    \/ Serde
    \/ \E index \in Indices : AtomicGet(Owner, index)
    \/ AtomicGetHi(Owner)
    \/ \E index \in 0..vec.len, value \in AtomicSetInputs :
          AtomicSet(Owner, index, value)
    \/ Cas(Owner)
    \/ CasLo(Owner)
    \/ LoadHi(Owner)
    \/ CasHi(Owner)

SpecOwned == InitOwned /\ [][NextOwned]_vars

\* (1 << bit_width) - 1, with all bits set when bit_width = W::BITS
LowBits(bit_width) == Pow2(bit_width) - 1

C18_MaskInvariant ==
    backend \in {"plain", "atomic"} =>
       /\ vec.bit_width \in 0..W_BITS
       /\ vec.mask = LowBits(vec.bit_width)
       /\ vec.bit_width = W_BITS => vec.mask = WordMax(W_BITS)
       /\ vec.bit_width = 0 => vec.mask = 0

\* C18 witness: an atomic vector of full-width values, converted from a
\* plain one that was rebuilt or converted before, holds a nonzero value
\* after a set.
C18_Witness ==
    /\ backend = "atomic"
    /\ rebuilt = "to_atomic"
    /\ W_BITS = UsizeBits
    /\ vec.bit_width = W_BITS
    /\ vec.mask = WordMax(W_BITS)
    /\ \E i \in Indices : Get(i) > 0 /\ Get(i) < vec.mask

\* C20: on a vector built by new_atomic, for every bit_width in 0..=W::BITS,
\* a set by the only thread never fails an assertion, and a get that follows
\* it returns the value set (the initial 0 where nothing was set).
C20_AtomicRoundTrip ==
    (backend = "atomic" /\ rebuilt = "no") =>
       /\ th[Owner].pc # "assert_failed"
       /\ (th[Owner].pc = "idle" /\ th[Owner].got # NoRes) =>
             th[Owner].got.value = hi_val[th[Owner].got.index]

(***************************************************************************)
(* The safe iterator as an ExactSizeIterator.                              *)
(***************************************************************************)
\* ExactSizeIterator::len of the live iterator
iter_len == vec.len - iter.index

\* C19: iter_from(start) with start <= len yields exactly len - start items
\* before it returns None, no call of it panics, its len() is at all times
\* the number of items still to come, and with start = len it yields nothing
\* and has loaded no word (an empty window); iter_from panics only when
\* start > len, and then no iterator exists.
C19_ExactlySized ==
    /\ panicked # "shift"
    /\ panicked = "start" => ~iter.live
    /\ iter.live =>
          /\ iter.start <= vec.len
          /\ iter_len = (vec.len - iter.start) - Len(iter.out)
          /\ iter_len >= 0
          /\ iter.done => Len(iter.out) = vec.len - iter.start
          /\ iter.start = vec.len =>
                /\ iter.out = <<>>
                /\ iter.window = 0
                /\ iter.fill = 0

(***************************************************************************)
(* The frame of the plain set.                                             *)
(***************************************************************************)
\* C22: a set of a fitting value at i < len leaves get(j) as it was for
\* every j # i, stores the value at i, and changes no bit outside field i:
\* the bits below bit_index of the low word, the bits above the field (in
\* the same word, or above the spilled part in the next word when the field
\* straddles) and every other word are preserved.
C22_SetFrame ==
    [][\A index \in Indices, value \in SetInputs :
          (Set(index, value) /\ set_check(vec, index, value) = "ok") =>
             LET pos   == index * vec.bit_width
                 k     == (pos \div W_BITS) + 1
                 below == pos % W_BITS
                 above == below + vec.bit_width
             IN  /\ \A j \in Indices \ {index} : Get(j)' = Get(j)
                 /\ Get(index)' = value
                 /\ vec'.data[k] % Pow2(below) = vec.data[k] % Pow2(below)
                 /\ IF above <= W_BITS
                    THEN /\ Shr(vec'.data[k], above) = Shr(vec.data[k], above)
                         /\ \A m \in DOMAIN vec.data \ {k} :
                               vec'.data[m] = vec.data[m]
                    ELSE /\ Shr(vec'.data[k + 1], above - W_BITS)
                               = Shr(vec.data[k + 1], above - W_BITS)
                         /\ \A m \in DOMAIN vec.data \ {k, k + 1} :
                               vec'.data[m] = vec.data[m]]_vars

\* C22 witness: a straddling field holds a value other than all ones and
\* zero between two neighbours that hold all ones, after sets on all three.
C22_Witness ==
    /\ backend = "plain"
    /\ last_set.res = "ok"
    /\ \E i \in Indices :
          /\ Straddles(vec, i, W_BITS)
          /\ i > 0
          /\ i + 1 < vec.len
          /\ Get(i - 1) = vec.mask
          /\ Get(i + 1) = vec.mask
          /\ Get(i) > 0
          /\ Get(i) < vec.mask

(***************************************************************************)
(* Memory safety of the unchecked accessors.                               *)
(***************************************************************************)
\* The word indices of the allocation
Allocated == 0..(Len(vec.data) - 1)

TwoWordPcs == {"cas_lo", "load_hi", "cas_hi", "get_hi"}

\* C24: with a power-of-two bit_width <= W::BITS no field straddles a word
\* boundary: bit_index + bit_width <= W::BITS for every index, each field
\* lies in the one word at word_index, and no atomic get or set is ever on
\* a two-word path.
C24_PowerOfTwoOneWord ==
    (IsPowerOfTwo(vec.bit_width) /\ vec.bit_width <= W_BITS) =>
       /\ \A index \in 0..(2 * W_BITS) :
             /\ bit_index_of(index) + vec.bit_width <= W_BITS
             /\ ~Straddles(vec, index, W_BITS)
             /\ touched_words(vec, index, W_BITS) = {word_index_of(index)}
       /\ backend = "atomic" => \A t \in Threads : th[t].pc \notin TwoWordPcs

\* C24 witness: an atomic set on a power-of-two vector is in its single-word
\* loop on a field that ends exactly at the word boundary.
C24_Witness ==
    /\ backend = "atomic"
    /\ IsPowerOfTwo(vec.bit_width)
    /\ vec.bit_width > 1
    /\ \E t \in Threads :
          /\ th[t].pc = "cas"
          /\ bit_index_of(th[t].index) > 0
          /\ bit_index_of(th[t].index) + vec.bit_width = W_BITS

(***************************************************************************)
(* The state of the iterator.                                              *)
(***************************************************************************)
\* C27: for every word size W, every valid bit_width and every start <= len,
\* the state of a live iterator has fill in [0, W::BITS] and a window with
\* no bit set at or above position fill, and every step consumes exactly
\* bit_width bits, loading the next word only when fill < bit_width and
\* then setting fill = W::BITS - (bit_width - fill).
C27_IterState ==
    /\ [](backend = "plain" /\ iter.live /\ panicked = "no" =>
             /\ iter.fill \in 0..W_BITS
             /\ iter.window < Pow2(iter.fill))
    /\ [][(IterNext /\ iter.index < vec.len /\ panicked' = "no") =>
             IF iter.fill >= vec.bit_width
             THEN /\ iter'.fill = iter.fill - vec.bit_width
                  /\ iter'.word_index = iter.word_index
             ELSE /\ iter'.word_index = iter.word_index + 1
                  /\ iter'.fill = W_BITS - (vec.bit_width - iter.fill)]_vars

(***************************************************************************)
(* Shift amounts.                                                          *)
(***************************************************************************)
\* C28: every shift executed by mask, get_unchecked, set_unchecked (plain
\* and atomic) and the iterator's next_unchecked has an amount strictly
\* smaller than W::BITS, bit_width = W::BITS included.
C28_NoShiftOverflow ==
    (backend \in {"plain", "atomic"}) =>
       /\ \A a \in mask_shifts(vec.bit_width, W_BITS) : a < W_BITS
       /\ \A index \in Indices :
             \A a \in get_unchecked_shifts(vec, index, W_BITS)
                         \cup set_unchecked_shifts(vec, index, W_BITS) :
                a < W_BITS
       /\ (backend = "plain" /\ iter.live /\ panicked = "no"
              /\ iter.index < vec.len) =>
             \A a \in next_unchecked_shifts(vec, iter) : a < W_BITS

(***************************************************************************)
(* Memory orderings.  The owner calls the atomic get and set with one      *)
(* ordering, any of core::sync::atomic::Ordering.                          *)
(***************************************************************************)
InitOrdered ==
    /\ order \in Orderings
    /\ backend = "atomic"
    /\ W_BITS = 8
    /\ \E bw \in 0..W_BITS, n \in 0..MaxAtomicLen :
          /\ build \in (IF bw = W_BITS THEN Builds ELSE {"release"})
          /\ vec = new(bw, n, W_BITS)
          /\ shadow = [i \in 0..(n - 1) |-> 0]
          /\ AtomicInit(n)
    /\ panicked = "no"
    /\ last_set = NoCall
    /\ iter = NoIter
    /\ rebuilt = "no"
    /\ NoTraits

NextOrdered ==
    \/ \E index \in Indices : AtomicGet(Owner, index)
    \/ AtomicGetHi(Owner)
    \/ \E index \in 0..vec.len, value \in AtomicSetInputs :
          AtomicSet(Owner, index, value)
    \/ Cas(Owner)
    \/ CasLo(Owner)
    \/ LoadHi(Owner)
    \/ CasHi(Owner)

SpecOrdered == InitOrdered /\ [][NextOrdered]_vars

\* C21: the atomic get and set called with Relaxed, Acquire, Release or
\* SeqCst complete normally: no call panics on its ordering, every load and
\* compare_exchange of the call is given that ordering, and once the set
\* has returned the vector holds the value it stored.
C21_EveryOrderingAccepted ==
    (backend = "atomic" /\ order \in {"Relaxed", "Acquire", "Release", "SeqCst"}) =>
       /\ \A t \in Threads :
             /\ th[t].pc # "order_panic"
             /\ \A i \in DOMAIN events[t] :
                   events[t][i].op \in {"load", "compare_exchange"} =>
                      events[t][i].order = order
       /\ (\A t \in Threads : th[t].pc \notin SetPcs) =>
             \A index \in Indices : Get(index) = hi_val[index]

(***************************************************************************)
(* The retry protocol of the atomic set.                                   *)
(***************************************************************************)
\* The loads among the events of thread t
LoadsOf(t) == SelectSeq(events[t], LAMBDA e : e.op = "load")

\* The bits of the word thread t is exchanging that belong to its field
TargetBits(t) ==
    LET bit_index == bit_index_of(th[t].index)
    IN  CASE th[t].pc = "cas"    -> Shl(vec.mask, bit_index, W_BITS)
          [] th[t].pc = "cas_lo" -> WordMax(W_BITS) - (Pow2(bit_index) - 1)
          [] th[t].pc = "cas_hi" -> Shr(vec.mask, W_BITS - bit_index)

\* The value of thread t shifted to its place in that word
ShiftedValue(t) ==
    LET bit_index == bit_index_of(th[t].index)
    IN  CASE th[t].pc = "cas"    -> Shl(th[t].value, bit_index, W_BITS)
          [] th[t].pc = "cas_lo" -> Shl(th[t].value, bit_index, W_BITS)
          [] th[t].pc = "cas_hi" -> Shr(th[t].value, W_BITS - bit_index)

\* C25: within one set_unchecked each affected word is loaded exactly once,
\* before its retry loop; an exchange that succeeds stores the last observed
\* value of the word with only the target bits cleared and the shifted value
\* ORed in; an exchange that fails changes no word, loads nothing, and leaves
\* the thread in its loop with the value the exchange returned.
C25_RetryProtocol ==
    /\ [](backend = "atomic" =>
            \A t \in Threads :
               /\ th[t].pc \in {"cas", "cas_lo", "load_hi"} =>
                     LoadsOf(t) = <<Load(0, order)>>
               /\ th[t].pc = "cas_hi" =>
                     LoadsOf(t) = <<Load(0, order), Load(1, order)>>
               /\ \A i, j \in DOMAIN events[t] :
                     (events[t][i].op = "load" /\ events[t][i] = events[t][j])
                        => i = j)
    /\ [][\A t \in Threads :
            (Cas(t) \/ CasLo(t) \/ CasHi(t)) =>
               LET k == WordOf(t) + 1
               IN  IF WouldSucceed(t)
                   THEN /\ BitAnd(vec'.data[k], BitNot(TargetBits(t), W_BITS))
                              = BitAnd(th[t].word, BitNot(TargetBits(t), W_BITS))
                        /\ BitAnd(vec'.data[k], TargetBits(t)) = ShiftedValue(t)
                        /\ \A m \in DOMAIN vec.data \ {k} :
                              vec'.data[m] = vec.data[m]
                   ELSE /\ vec' = vec
                        /\ events'[t] = events[t]
                        /\ th'[t].pc = th[t].pc
                        /\ th'[t].word = vec.data[k]]_vars

\* C25 witness: two threads are in the loop on the high word of their
\* straddling fields, each having loaded each of its words once, and the
\* word has changed since one of them observed it: its next exchange fails.
C25_Witness ==
    /\ backend = "atomic"
    /\ \E t, u \in Threads :
          /\ t # u
          /\ th[t].pc = "cas_hi"
          /\ th[u].pc = "cas_hi"
          /\ WordOf(t) = WordOf(u)
          /\ Len(LoadsOf(t)) = 2
          /\ ~WouldSucceed(t)
          /\ WouldSucceed(u)

(***************************************************************************)
(* The step order of the atomic set on a straddling field.                 *)
(***************************************************************************)
\* The places of event e among the events of thread t
PositionsOf(t, e) == {i \in DOMAIN events[t] : events[t][i] = e}

\* In the events of thread t: a release fence follows the successful
\* exchange of either word, a compiler fence sits between the low word's
\* exchange and the load of the high word, and the low word's exchange
\* succeeded before the high word was loaded.
AfterTheLoops(t) ==
    /\ \A w \in {0, 1} : \A i \in PositionsOf(t, Exchanged(w, order)) :
          /\ i + 1 \in DOMAIN events[t]
          /\ events[t][i + 1] = Fence("Release")
    /\ \A i \in PositionsOf(t, Load(1, order)) :
          /\ \E j \in 1..(i - 1) : \E k \in 1..(j - 1) :
                /\ events[t][j] = CompilerFence("SeqCst")
                /\ events[t][k] = Exchanged(0, order)
          /\ \A j \in PositionsOf(t, Exchanged(1, order)) : j > i

\* The events of thread t are those of a set on a straddling field.
TwoWordSet(t) == \E i \in DOMAIN events[t] : events[t][i].op = "fence"

\* C26 as stated: in a set on a straddling field, for each of the two words
\* an acquire fence precedes the loop's initial load of that word and a
\* release fence follows its successful exchange; a compiler fence sits
\* between the two loops; and the low word's exchange has succeeded before
\* the high word is first loaded.
C26_FenceBeforeLoad ==
    backend = "atomic" =>
       \A t \in Threads : TwoWordSet(t) =>
          /\ \A w \in {0, 1} : \A i \in PositionsOf(t, Load(w, order)) :
                \E j \in 1..(i - 1) : events[t][j] = Fence("Acquire")
          /\ AfterTheLoops(t)

\* C26, amended: for each of the two words the loop's initial load of that
\* word is immediately followed by an acquire fence, which precedes every
\* exchange of the loop, and a release fence follows its successful
\* exchange; a compiler fence sits between the two loops; and the low word's
\* exchange has succeeded before the high word is first loaded.  A thread in
\* the loop of a word has that load and its fence as its last two events.
C26_FenceAfterLoad ==
    backend = "atomic" =>
       \A t \in Threads : TwoWordSet(t) =>
          /\ \A w \in {0, 1} : \A i \in PositionsOf(t, Load(w, order)) :
                /\ i + 1 \in DOMAIN events[t]
                /\ events[t][i + 1] = Fence("Acquire")
                /\ \A j \in PositionsOf(t, Exchanged(w, order)) : j > i + 1
          /\ AfterTheLoops(t)
          /\ th[t].pc \in {"cas_lo", "cas_hi"} =>
                /\ Len(events[t]) >= 2
                /\ events[t][Len(events[t]) - 1] =
                      Load(IF th[t].pc = "cas_lo" THEN 0 ELSE 1, order)
                /\ events[t][Len(events[t])] = Fence("Acquire")
          /\ th[t].pc = "load_hi" =>
                events[t][Len(events[t])] = CompilerFence("SeqCst")

\* C26 witness: a thread has returned from a set on a straddling field,
\* with both loads, both successful exchanges and all five fences behind it,
\* while another thread is between the two loops of its own.
C26_Witness ==
    /\ backend = "atomic"
    /\ \E t, u \in Threads :
          /\ th[t].pc = "idle"
          /\ TwoWordSet(t)
          /\ PositionsOf(t, Exchanged(1, order)) # {}
          /\ Len(events[t]) = 9
          /\ th[u].pc = "load_hi"

(***************************************************************************)
(* Termination of the atomic set.  The threads call set and nothing else   *)
(* (a get writes no word and cannot make an exchange fail).  The scheduler *)
(* is fair to every thread: a thread inside a set that can take its next   *)
(* step eventually takes it.  Which sets the threads call, and when, is up *)
(* to the program.                                                         *)
(***************************************************************************)
\* The next step of thread t inside set_unchecked
SetStep(t) ==
    \/ Cas(t)
    \/ CasLo(t)
    \/ LoadHi(t)
    \/ CasHi(t)

NextSets ==
    \/ \E t \in Threads, index \in 0..vec.len, value \in AtomicSetInputs :
          AtomicSet(t, index, value)
    \/ \E t \in Threads : Cas(t)
    \/ \E t \in Threads : CasLo(t)
    \/ \E t \in Threads : LoadHi(t)
    \/ \E t \in Threads : CasHi(t)

SpecSetsFair ==
    /\ InitAtomic
    /\ [][NextSets]_vars
    /\ \A t \in Threads : WF_vars(SetStep(t))

\* Some thread calls set.
SomeSetCall ==
    \E t \in Threads, index \in 0..vec.len, value \in AtomicSetInputs :
       AtomicSet(t, index, value)

\* C29: when the threads issue finitely many set calls, then under fair
\* scheduling every set call eventually returns: either set calls keep
\* being issued for ever, or from some point on no thread is inside a set.
\* And no call performs more than two successful exchanges.
C29_SetsReturn ==
    /\ \/ []<><<SomeSetCall>>_vars
       \/ <>[](\A t \in Threads : th[t].pc \notin SetPcs)
    /\ [](\A t \in Threads :
            Cardinality({i \in DOMAIN events[t] :
                            events[t][i].op = "compare_exchange"}) <= 2)

\* C29 witness: a thread is in a retry loop with a stale value of its word,
\* because the exchange of a thread that is now between its two loops has
\* succeeded on that word.
C29_Witness ==
    /\ backend = "atomic"
    /\ \E t, u \in Threads :
          /\ th[t].pc \in LoopPcs
          /\ ~WouldSucceed(t)
          /\ t \in bumped
          /\ th[u].pc = "load_hi"
          /\ WordOf(t) = word_index_of(th[u].index)

====
